---------------------------- MODULE Spec2Model ----------------------------
(***************************************************************************)
(* DeliveryGenie: the order-priority scorer and its two callers.           *)
(*                                                                         *)
(*   src/src/app/api/orders/calculate-priority/route.ts                    *)
(*       class OrderPriorityCalculator, POST handler (batch endpoint)      *)
(*   src/src/app/page.tsx                                                  *)
(*       class OrderPriorityCalculator, mockOrders,                        *)
(*       DeliveryPriorityDashboard (load effect, clock tick, selection)    *)
(*                                                                         *)
(* Representation.                                                         *)
(*   - Instants are integers, in milliseconds (Date.getTime()).            *)
(*   - A JavaScript number that can leave the finite range is a record     *)
(*     [kind, v]: kind is "finite" (value v), "-Infinity", "Infinity" or   *)
(*     "NaN"; a product price may also be of kind "string" (a value that   *)
(*     is not a number).                                                   *)
(*   - Component scores are whole points.  Weights, weighted parts, the    *)
(*     weighted total and priority_score are in thousandths of a point     *)
(*     (0.30 is 300, 75 points are 75000), so that rounding to two         *)
(*     decimals is a real operation on the value.  Every weighted total    *)
(*     the six step functions can produce was evaluated in IEEE-754        *)
(*     double arithmetic in the order the source adds them: the rounded    *)
(*     result and the class are those of the exact value in all 6000       *)
(*     combinations, so the exact fixed-point value stands for the double. *)
(*   - Labels are written in ASCII; the source's labels are Thai strings.  *)
(*     Distinct source labels are distinct here, equal ones equal.         *)
(***************************************************************************)
EXTENDS Integers, Sequences, FiniteSets, TLC

VARIABLES
    request,        \* endpoint: the body of the request being handled
    response,       \* endpoint: the response returned for it
    orders,         \* dashboard state `orders`
    sortedOrders,   \* dashboard state `sortedOrders`
    selectedOrder,  \* dashboard state `selectedOrder`
    currentTime,    \* dashboard state `currentTime`
    mockOrders,     \* page.tsx module constant, built when the module loads
    mounted,        \* dashboard: the mount effects have run
    clock,          \* the wall clock (ms)
    ticks,          \* number of interval callbacks that have run
    calcInput,      \* scorer harness: the order handed to the scorers
    calcNow,        \* scorer harness: the instant of the scoring call
    serverScored,   \* scorer harness: route.ts calculateOrderPriority result
    pageScored      \* scorer harness: page.tsx calculateOrderPriority result

vars == << request, response, orders, sortedOrders, selectedOrder, currentTime,
           mockOrders, mounted, clock, ticks, calcInput, calcNow, serverScored, pageScored >>

(***************************************************************************)
(* Bounds of the model.                                                    *)
(***************************************************************************)
MaxBatch == 3
MaxProducts == 2
MaxTicks == 2

(***************************************************************************)
(* JavaScript numbers.                                                     *)
(***************************************************************************)
Fin(n) == [kind |-> "finite", v |-> n]
NegInfinity == [kind |-> "-Infinity", v |-> 0]
PosInfinity == [kind |-> "Infinity", v |-> 0]
NaN == [kind |-> "NaN", v |-> 0]
NonNumeric == [kind |-> "string", v |-> 0]

IsFinite(x) == x.kind = "finite"

\* ToNumber of a value used as an operand of `*`: a string that is no numeral
\* converts to NaN.
ToNumber(x) == IF x.kind = "string" THEN NaN ELSE x

\* x * k for a positive finite k.
JsTimes(x, k) ==
    LET n == ToNumber(x)
    IN  IF n.kind = "finite" THEN Fin(n.v * k) ELSE n

\* x + y
JsPlus(x, y) ==
    CASE x.kind = "NaN" \/ y.kind = "NaN" -> NaN
      [] x.kind = "finite" /\ y.kind = "finite" -> Fin(x.v + y.v)
      [] x.kind = "finite" -> y
      [] y.kind = "finite" -> x
      [] x.kind = y.kind -> x
      [] OTHER -> NaN

\* x - y
JsMinus(x, y) ==
    LET neg == CASE y.kind = "finite" -> Fin(0 - y.v)
                 [] y.kind = "Infinity" -> NegInfinity
                 [] y.kind = "-Infinity" -> PosInfinity
                 [] OTHER -> NaN
    IN  JsPlus(x, neg)

\* x <= n and x >= n for a finite n: every comparison with NaN is false.
JsLe(x, n) ==
    CASE x.kind = "finite" -> x.v <= n
      [] x.kind = "-Infinity" -> TRUE
      [] OTHER -> FALSE

JsGe(x, n) ==
    CASE x.kind = "finite" -> x.v >= n
      [] x.kind = "Infinity" -> TRUE
      [] OTHER -> FALSE

\* Math.max(...xs) and Math.min(...xs) over finite arguments: the empty
\* argument list gives -Infinity and Infinity.
RECURSIVE MathMax(_)
MathMax(xs) ==
    IF Len(xs) = 0 THEN NegInfinity
    ELSE LET rest == MathMax(Tail(xs))
         IN  IF rest.kind = "finite" /\ rest.v > Head(xs) THEN rest
             ELSE Fin(Head(xs))

\* Variant: the largest argument is returned.
RECURSIVE MathMin_largest(_)
MathMin_largest(xs) ==
    IF Len(xs) = 0 THEN PosInfinity
    ELSE LET rest == MathMin_largest(Tail(xs))
         IN  IF rest.kind = "finite" /\ rest.v > Head(xs) THEN rest
             ELSE Fin(Head(xs))

RECURSIVE MathMin(_)
MathMin(xs) ==
    IF Len(xs) = 0 THEN PosInfinity
    ELSE LET rest == MathMin(Tail(xs))
         IN  IF rest.kind = "finite" /\ rest.v < Head(xs) THEN rest
             ELSE Fin(Head(xs))

\* Math.round(x): the nearest integer, halves towards +Infinity, for a value
\* n given in units of 1/unit.
RoundDiv(n, unit) == (2 * n + unit) \div (2 * unit)

\* Math.round(totalScore * 100) / 100 on a value in thousandths of a point.
ThousandthsPerPoint == 1000
ThousandthsPerHundredth == 10

\* Variant: Math.round(totalScore * 10) / 10, one decimal.
RoundTwoDecimals_oneDecimal(x) ==
    IF x.kind = "finite"
    THEN Fin(RoundDiv(x.v, 10 * ThousandthsPerHundredth) * 10 * ThousandthsPerHundredth)
    ELSE x

RoundTwoDecimals(x) ==
    IF x.kind = "finite"
    THEN Fin(RoundDiv(x.v, ThousandthsPerHundredth) * ThousandthsPerHundredth)
    ELSE x

(***************************************************************************)
(* route.ts: class OrderPriorityCalculator.                                *)
(***************************************************************************)
tempRequirements ==
    [ hot_food    |-> [score |-> 100, label |-> "hot 60-70C"],
      frozen      |-> [score |-> 90,  label |-> "frozen -18C"],
      chilled     |-> [score |-> 75,  label |-> "chilled 0-4C"],
      beverage    |-> [score |-> 40,  label |-> "cool 15-20C"],
      snack       |-> [score |-> 20,  label |-> "ambient"],
      daily_goods |-> [score |-> 20,  label |-> "ambient"],
      medicine    |-> [score |-> 60,  label |-> "ambient (medicine)"] ]

customerPriorityScores ==
    [ urgent |-> 100, high |-> 75, standard |-> 50, economy |-> 25 ]

\* Variant: a temperature weight of 0.40, so that the weights sum to 1.10.
weights_heavyTemperature ==
    [ temperature |-> 400, expiration |-> 250, customer_priority |-> 150,
      value |-> 100, delivery_window |-> 150, fragility |-> 50 ]

weights ==
    [ temperature |-> 300, expiration |-> 250, customer_priority |-> 150,
      value |-> 100, delivery_window |-> 150, fragility |-> 50 ]

MsPerMinute == 60000

\* this.tempRequirements[p.category]?.score || 20
tempScoreOf(category) ==
    IF category \in DOMAIN tempRequirements
    THEN tempRequirements[category].score
    ELSE 20

\* this.customerPriorityScores[order.customer_priority] || 50
customerScoreOf(priority) ==
    IF priority \in DOMAIN customerPriorityScores
    THEN customerPriorityScores[priority]
    ELSE 50

scoreExpiration(hours) ==
    IF JsLe(hours, 3) THEN 100
    ELSE IF JsLe(hours, 8) THEN 90
    ELSE IF JsLe(hours, 24) THEN 70
    ELSE IF JsLe(hours, 168) THEN 50
    ELSE 30

\* Variant: open lower bounds (value > 500, > 200, ...).
scoreValue_openBounds(value) ==
    IF JsGe(value, 501) THEN 100
    ELSE IF JsGe(value, 201) THEN 80
    ELSE IF JsGe(value, 101) THEN 60
    ELSE IF JsGe(value, 51) THEN 40
    ELSE 20

scoreValue(value) ==
    IF JsGe(value, 500) THEN 100
    ELSE IF JsGe(value, 200) THEN 80
    ELSE IF JsGe(value, 100) THEN 60
    ELSE IF JsGe(value, 50) THEN 40
    ELSE 20

\* Variant: a deadline that has passed gets the lowest urgency.
scoreDeliveryWindow_overdueLowest(minutes) ==
    IF minutes < 0 THEN 30
    ELSE IF minutes <= 15 * MsPerMinute THEN 100
    ELSE IF minutes <= 30 * MsPerMinute THEN 90
    ELSE IF minutes <= 60 * MsPerMinute THEN 70
    ELSE IF minutes <= 120 * MsPerMinute THEN 50
    ELSE 30

\* `minutes` is the difference of two instants in ms (minutes * 60000).
scoreDeliveryWindow(minutes) ==
    IF minutes <= 15 * MsPerMinute THEN 100
    ELSE IF minutes <= 30 * MsPerMinute THEN 90
    ELSE IF minutes <= 60 * MsPerMinute THEN 70
    ELSE IF minutes <= 120 * MsPerMinute THEN 50
    ELSE 30

\* Variant: open lower bounds (score > 75, > 60, > 40).
classifyPriority_openBounds(score) ==
    IF JsGe(score, 75 * ThousandthsPerPoint + 1) THEN "critical"
    ELSE IF JsGe(score, 60 * ThousandthsPerPoint + 1) THEN "high"
    ELSE IF JsGe(score, 40 * ThousandthsPerPoint + 1) THEN "medium"
    ELSE "low"

\* `score` is in thousandths of a point.
classifyPriority(score) ==
    IF JsGe(score, 75 * ThousandthsPerPoint) THEN "critical"
    ELSE IF JsGe(score, 60 * ThousandthsPerPoint) THEN "high"
    ELSE IF JsGe(score, 40 * ThousandthsPerPoint) THEN "medium"
    ELSE "low"

\* order.products.map(p => this.tempRequirements[p.category]?.score || 20)
tempScores(products) ==
    [i \in 1..Len(products) |-> tempScoreOf(products[i].category)]

\* order.products.find(p => this.tempRequirements[p.category]?.score === maxTempScore):
\* the index of the first match, 0 when there is none (undefined).
highestTempProduct(products, maxTempScore) ==
    LET hits == { i \in 1..Len(products) :
                    /\ products[i].category \in DOMAIN tempRequirements
                    /\ Fin(tempRequirements[products[i].category].score) = maxTempScore }
    IN  IF hits = {} THEN 0 ELSE CHOOSE i \in hits : \A j \in hits : i <= j

\* Variant: the label is taken from the order's first product.
tempRequirementOf_firstProduct(products, maxTempScore) ==
    IF Len(products) >= 1 /\ products[1].category \in DOMAIN tempRequirements
    THEN tempRequirements[products[1].category]
    ELSE tempRequirements["snack"]

\* this.tempRequirements[highestTempProduct?.category || 'snack']
tempRequirementOf(products, maxTempScore) ==
    LET i == highestTempProduct(products, maxTempScore)
    IN  IF i = 0 THEN tempRequirements["snack"]
        ELSE tempRequirements[products[i].category]

expirations(products) ==
    [i \in 1..Len(products) |-> products[i].expiration_hours]

\* order.products.reduce((sum, p) => sum + (p.price * p.quantity), 0)
RECURSIVE totalValueFrom(_, _)
totalValueFrom(sum, products) ==
    IF Len(products) = 0 THEN sum
    ELSE totalValueFrom(JsPlus(sum, JsTimes(Head(products).price, Head(products).quantity)),
                        Tail(products))

totalValueOf(products) == totalValueFrom(Fin(0), products)

hasMedicine(products) ==
    \E i \in 1..Len(products) : products[i].category = "medicine"

fragilityScoreOf(products) == IF hasMedicine(products) THEN 100 ELSE 30

\* (deliveryEnd.getTime() - now.getTime()) / (1000 * 60), as ms, with
\* now = new Date(order.order_time)
minutesRemainingOf(order) == order.delivery_window_end - order.order_time

\* Math.round(minutesRemaining)
roundMinutes(minutes) == RoundDiv(minutes, MsPerMinute)

breakdownOf(order) ==
    [ temperature       |-> JsTimes(MathMax(tempScores(order.products)), weights.temperature),
      expiration        |-> Fin(scoreExpiration(MathMin(expirations(order.products)))
                                * weights.expiration),
      customer_priority |-> Fin(customerScoreOf(order.customer_priority)
                                * weights.customer_priority),
      value             |-> Fin(scoreValue(totalValueOf(order.products)) * weights.value),
      delivery_window   |-> Fin(scoreDeliveryWindow(minutesRemainingOf(order))
                                * weights.delivery_window),
      fragility         |-> Fin(fragilityScoreOf(order.products) * weights.fragility) ]

\* Object.values(breakdown).reduce((sum, val) => sum + val, 0)
totalScoreOf(breakdown) ==
    JsPlus(JsPlus(JsPlus(JsPlus(JsPlus(JsPlus(Fin(0),
        breakdown.temperature), breakdown.expiration), breakdown.customer_priority),
        breakdown.value), breakdown.delivery_window), breakdown.fragility)

calculateOrderPriority(order) ==
    LET maxTempScore == MathMax(tempScores(order.products))
        breakdown == breakdownOf(order)
        totalScore == totalScoreOf(breakdown)
    IN  [ order_id                 |-> order.order_id,
          priority_score           |-> RoundTwoDecimals(totalScore),
          priority_class           |-> classifyPriority(totalScore),
          breakdown                |-> breakdown,
          highest_temp_requirement |-> tempRequirementOf(order.products, maxTempScore).label,
          total_value              |-> totalValueOf(order.products),
          earliest_expiration      |-> MathMin(expirations(order.products)),
          minutes_until_deadline   |-> roundMinutes(minutesRemainingOf(order)) ]


(***************************************************************************)
(* page.tsx: class OrderPriorityCalculator (the browser-side copy).        *)
(***************************************************************************)
page_tempRequirements ==
    [ hot_food    |-> [temp |-> "hot",     score |-> 100, label |-> "hot 60-70C"],
      frozen      |-> [temp |-> "frozen",  score |-> 90,  label |-> "frozen -18C"],
      chilled     |-> [temp |-> "chilled", score |-> 75,  label |-> "chilled 0-4C"],
      beverage    |-> [temp |-> "cool",    score |-> 40,  label |-> "cool 15-20C"],
      snack       |-> [temp |-> "ambient", score |-> 20,  label |-> "ambient"],
      daily_goods |-> [temp |-> "ambient", score |-> 20,  label |-> "ambient"],
      medicine    |-> [temp |-> "ambient", score |-> 60,  label |-> "ambient (medicine)"] ]

page_customerPriorityScores ==
    [ urgent |-> 100, high |-> 75, standard |-> 50, economy |-> 25 ]

page_weights ==
    [ temperature |-> 300, expiration |-> 250, customer_priority |-> 150,
      value |-> 100, delivery_window |-> 150, fragility |-> 50 ]

page_tempScoreOf(category) ==
    IF category \in DOMAIN page_tempRequirements
    THEN page_tempRequirements[category].score
    ELSE 20

page_customerScoreOf(priority) ==
    IF priority \in DOMAIN page_customerPriorityScores
    THEN page_customerPriorityScores[priority]
    ELSE 50

\* Variant: the first step of the browser copy ends at 2 hours.
page_scoreExpiration_drifted(hours) ==
    IF JsLe(hours, 2) THEN 100
    ELSE IF JsLe(hours, 8) THEN 90
    ELSE IF JsLe(hours, 24) THEN 70
    ELSE IF JsLe(hours, 168) THEN 50
    ELSE 30

page_scoreExpiration(hours) ==
    IF JsLe(hours, 3) THEN 100
    ELSE IF JsLe(hours, 8) THEN 90
    ELSE IF JsLe(hours, 24) THEN 70
    ELSE IF JsLe(hours, 168) THEN 50
    ELSE 30

page_scoreValue(value) ==
    IF JsGe(value, 500) THEN 100
    ELSE IF JsGe(value, 200) THEN 80
    ELSE IF JsGe(value, 100) THEN 60
    ELSE IF JsGe(value, 50) THEN 40
    ELSE 20

page_scoreDeliveryWindow(minutes) ==
    IF minutes <= 15 * MsPerMinute THEN 100
    ELSE IF minutes <= 30 * MsPerMinute THEN 90
    ELSE IF minutes <= 60 * MsPerMinute THEN 70
    ELSE IF minutes <= 120 * MsPerMinute THEN 50
    ELSE 30

page_classifyPriority(score) ==
    IF JsGe(score, 75 * ThousandthsPerPoint) THEN "critical"
    ELSE IF JsGe(score, 60 * ThousandthsPerPoint) THEN "high"
    ELSE IF JsGe(score, 40 * ThousandthsPerPoint) THEN "medium"
    ELSE "low"

page_tempScores(products) ==
    [i \in 1..Len(products) |-> page_tempScoreOf(products[i].category)]

page_highestTempProduct(products, maxTempScore) ==
    LET hits == { i \in 1..Len(products) :
                    /\ products[i].category \in DOMAIN page_tempRequirements
                    /\ Fin(page_tempRequirements[products[i].category].score) = maxTempScore }
    IN  IF hits = {} THEN 0 ELSE CHOOSE i \in hits : \A j \in hits : i <= j

page_tempRequirementOf(products, maxTempScore) ==
    LET i == page_highestTempProduct(products, maxTempScore)
    IN  IF i = 0 THEN page_tempRequirements["snack"]
        ELSE page_tempRequirements[products[i].category]

page_minutesRemainingOf(order) == order.delivery_window_end - order.order_time

\* (maxTempScore * weights.temperature) + ... + (fragilityScore * weights.fragility)
page_totalScoreOf(order) ==
    JsPlus(JsPlus(JsPlus(JsPlus(JsPlus(
        JsTimes(MathMax(page_tempScores(order.products)), page_weights.temperature),
        Fin(page_scoreExpiration(MathMin(expirations(order.products)))
            * page_weights.expiration)),
        Fin(page_customerScoreOf(order.customer_priority) * page_weights.customer_priority)),
        Fin(page_scoreValue(totalValueOf(order.products)) * page_weights.value)),
        Fin(page_scoreDeliveryWindow(page_minutesRemainingOf(order))
            * page_weights.delivery_window)),
        Fin((IF hasMedicine(order.products) THEN 100 ELSE 30) * page_weights.fragility))

\* The fields the spread `...order` copies are those of the input record.
page_calculateOrderPriority(order) ==
    LET maxTempScore == MathMax(page_tempScores(order.products))
        totalScore == page_totalScoreOf(order)
    IN  [ priority_score           |-> RoundTwoDecimals(totalScore),
          priority_class           |-> page_classifyPriority(totalScore),
          highest_temp_requirement |->
              page_tempRequirementOf(order.products, maxTempScore).label,
          total_value              |-> totalValueOf(order.products),
          earliest_expiration      |-> MathMin(expirations(order.products)) ] @@ order

(***************************************************************************)
(* Array.prototype.sort: a stable sort; a comparator result that is NaN    *)
(* counts as 0.  The sort works on references: `xs` is a sequence of       *)
(* indices and cmp[i][j] is the comparator's result on the objects they    *)
(* refer to (cmp is the table of the comparator's results).                *)
(***************************************************************************)
JsPositive(x) == x.kind = "Infinity" \/ (x.kind = "finite" /\ x.v > 0)

\* Variant: e goes in front of the first element that is not before it, so
\* equal elements end up in reverse input order.
RECURSIVE InsertSorted_beforeEqual(_, _, _)
InsertSorted_beforeEqual(sorted, e, cmp) ==
    IF Len(sorted) = 0 THEN << e >>
    ELSE IF ~JsPositive(cmp[e][Head(sorted)]) THEN << e >> \o sorted
    ELSE << Head(sorted) >> \o InsertSorted_beforeEqual(Tail(sorted), e, cmp)

\* e goes in front of the first element that the comparator puts after it.
RECURSIVE InsertSorted(_, _, _)
InsertSorted(sorted, e, cmp) ==
    IF Len(sorted) = 0 THEN << e >>
    ELSE IF JsPositive(cmp[Head(sorted)][e]) THEN << e >> \o sorted
    ELSE << Head(sorted) >> \o InsertSorted(Tail(sorted), e, cmp)

RECURSIVE ArraySort(_, _)
ArraySort(xs, cmp) ==
    IF Len(xs) = 0 THEN << >>
    ELSE InsertSorted(ArraySort(SubSeq(xs, 1, Len(xs) - 1), cmp), xs[Len(xs)], cmp)

\* The position of reference i in the sorted sequence of references.
PositionOf(perm, i) == CHOOSE k \in 1..Len(perm) : perm[k] = i


(***************************************************************************)
(* route.ts: the POST handler.                                             *)
(*                                                                         *)
(* A request body is [kind, orders]: kind "unparsable" (request.json()     *)
(* rejects), "null" (the JSON value null), "number" (a JSON value with no  *)
(* properties) or "object"; `orders` is [kind, items] with kind            *)
(* "undefined" (no such field), "null", "string" (a non-empty string),     *)
(* "object" or "array".  An array item is an order record; an item with no *)
(* `products` field makes order.products.map throw a TypeError.            *)
(***************************************************************************)
Body(kind, ordersKind, items) ==
    [kind |-> kind, orders |-> [kind |-> ordersKind, items |-> items]]

\* const { orders } = body
destructureOrders(body) ==
    IF body.kind = "object" THEN body.orders
    ELSE [kind |-> "undefined", items |-> << >>]

\* Variant: an empty array is rejected too.
invalidOrders_rejectsEmpty(ordersValue) ==
    ordersValue.kind # "array" \/ ordersValue.items = << >>

\* !orders || !Array.isArray(orders)
invalidOrders(ordersValue) == ordersValue.kind # "array"

\* calculateOrderPriority(order) throws: order.products is undefined.
calculatorThrows(order) == "products" \notin DOMAIN order

\* Variant: a.priority_score - b.priority_score, an ascending sort.
sortComparator_ascending(results) ==
    [a \in 1..Len(results) |-> [b \in 1..Len(results) |->
        JsMinus(results[a].priority_score, results[b].priority_score)]]

\* The comparator of results.sort: b.priority_score - a.priority_score.
sortComparator(results) ==
    [a \in 1..Len(results) |-> [b \in 1..Len(results) |->
        JsMinus(results[b].priority_score, results[a].priority_score)]]

\* results.sort(...) sorts the array of references in place; forEach then
\* sets suggested_delivery_order on each object.
rankResults(results) ==
    LET perm == ArraySort([i \in 1..Len(results) |-> i], sortComparator(results))
    IN  [k \in 1..Len(perm) |->
            results[perm[k]] @@ [suggested_delivery_order |-> k]]

\* Variant: the count misses the first record of the list.
countClass_skipFirst(sorted, class) ==
    Cardinality({ k \in 2..Len(sorted) : sorted[k].priority_class = class })

\* sorted.filter(o => o.priority_class === class).length
countClass(sorted, class) ==
    Cardinality({ k \in 1..Len(sorted) : sorted[k].priority_class = class })

RECURSIVE sumScores(_, _)
sumScores(sum, sorted) ==
    IF Len(sorted) = 0 THEN sum
    ELSE sumScores(JsPlus(sum, Head(sorted).priority_score), Tail(sorted))

RECURSIVE Gcd(_, _)
Gcd(a, b) == IF b = 0 THEN a ELSE Gcd(b, a % b)

Abs(n) == IF n < 0 THEN 0 - n ELSE n

\* x / n for a length n >= 0: a finite quotient is the fraction v / d in
\* lowest terms; 0 / 0 is NaN.
JsDivide(x, n) ==
    CASE x.kind # "finite" -> [kind |-> x.kind, v |-> 0, d |-> 1]
      [] n = 0 /\ x.v = 0 -> [kind |-> "NaN", v |-> 0, d |-> 1]
      [] n = 0 /\ x.v > 0 -> [kind |-> "Infinity", v |-> 0, d |-> 1]
      [] n = 0 /\ x.v < 0 -> [kind |-> "-Infinity", v |-> 0, d |-> 1]
      [] OTHER -> LET g == Gcd(Abs(x.v), n)
                  IN  [kind |-> "finite", v |-> x.v \div g, d |-> n \div g]

successBody(sorted) ==
    [ success      |-> TRUE,
      total_orders |-> Len(sorted),
      orders       |-> sorted,
      summary      |-> [ critical  |-> countClass(sorted, "critical"),
                         high      |-> countClass(sorted, "high"),
                         medium    |-> countClass(sorted, "medium"),
                         low       |-> countClass(sorted, "low"),
                         avg_score |-> JsDivide(sumScores(Fin(0), sorted), Len(sorted)) ] ]

handlePOST(body) ==
    IF body.kind \in {"unparsable", "null"}
    THEN [status |-> 500, body |-> [error |-> "Internal server error"]]
    ELSE IF invalidOrders(destructureOrders(body))
    THEN [status |-> 400, body |-> [error |-> "Invalid request: orders array required"]]
    ELSE LET items == destructureOrders(body).items
         IN  IF \E i \in 1..Len(items) : calculatorThrows(items[i])
             THEN [status |-> 500, body |-> [error |-> "Internal server error"]]
             ELSE [status |-> 200,
                   body |-> successBody(rankResults(
                       [i \in 1..Len(items) |-> calculateOrderPriority(items[i])]))]

\* One invocation of the handler: `request` is the body it was called with.
POST ==
    /\ response = << >>
    /\ response' = << handlePOST(request[1]) >>
    /\ UNCHANGED << request, orders, sortedOrders, selectedOrder, currentTime, mockOrders,
                    mounted, clock, ticks, calcInput, calcNow, serverScored, pageScored >>

(***************************************************************************)
(* page.tsx: mockOrders and the DeliveryPriorityDashboard component.       *)
(*                                                                         *)
(* Each mock order reads the clock twice while the module loads:           *)
(* order_time is new Date() and delivery_window_end is Date.now() plus the *)
(* window; the second read is `skew` ms later than the first.  Fields the  *)
(* calculator and the effects never read (names, address, coordinates,     *)
(* product ids) are left out of the records.                               *)
(***************************************************************************)
Product(category, price, quantity, expiration_hours) ==
    [ category |-> category, price |-> Fin(price), quantity |-> quantity,
      expiration_hours |-> expiration_hours ]

Order(id, priority, orderTime, windowEnd, products) ==
    [ order_id |-> id, customer_priority |-> priority, order_time |-> orderTime,
      delivery_window_end |-> windowEnd, products |-> products ]

SkewValues == {0, 1}

buildMockOrders(t, skew) ==
    << Order("ORD001", "urgent", t, t + skew[1] + 25 * MsPerMinute,
             << Product("hot_food", 65, 1, 3), Product("beverage", 10, 2, 8760) >>),
       Order("ORD002", "urgent", t, t + skew[2] + 30 * MsPerMinute,
             << Product("frozen", 89, 2, 720), Product("beverage", 20, 1, 8760) >>),
       Order("ORD003", "high", t, t + skew[3] + 45 * MsPerMinute,
             << Product("chilled", 45, 2, 8), Product("beverage", 40, 1, 24) >>),
       Order("ORD004", "high", t, t + skew[4] + 60 * MsPerMinute,
             << Product("medicine", 120, 1, 17520), Product("beverage", 15, 3, 8760) >>),
       Order("ORD005", "standard", t, t + skew[5] + 120 * MsPerMinute,
             << Product("snack", 25, 5, 4380), Product("beverage", 60, 1, 8760) >>) >>

\* number || 0
OrZero(x) ==
    IF x.kind = "NaN" \/ (x.kind = "finite" /\ x.v = 0) THEN Fin(0) ELSE x

\* (b.priority_score || 0) - (a.priority_score || 0)
page_sortComparator(calculated) ==
    [a \in 1..Len(calculated) |-> [b \in 1..Len(calculated) |->
        JsMinus(OrZero(calculated[b].priority_score),
                OrZero(calculated[a].priority_score))]]

\* [...calculated].sort(...): a new array of the same object references.
page_sortedRefs(calculated) ==
    ArraySort([i \in 1..Len(calculated) |-> i], page_sortComparator(calculated))

\* sorted.forEach((order, index) => order.suggested_delivery_order = index + 1)
\* writes to the objects both arrays refer to.
page_rankedObjects(calculated) ==
    LET perm == page_sortedRefs(calculated)
    IN  [i \in 1..Len(calculated) |->
            calculated[i] @@ [suggested_delivery_order |-> PositionOf(perm, i)]]

\* mockOrders.map(order => calculator.calculateOrderPriority(order))
page_calculated(mock) ==
    [i \in 1..Len(mock) |-> page_calculateOrderPriority(mock[i])]

\* The sorted array: the ranked objects in the order of the sorted references.
page_sortedObjects(calculated) ==
    [k \in 1..Len(calculated) |->
        page_rankedObjects(calculated)[page_sortedRefs(calculated)[k]]]

\* The first useEffect: runs once, after the first render.
\* setOrders(calculated); setSortedOrders(sorted)
LoadEffect ==
    /\ ~mounted
    /\ orders' = page_rankedObjects(page_calculated(mockOrders))
    /\ sortedOrders' = page_sortedObjects(page_calculated(mockOrders))
    /\ mounted' = TRUE
    /\ UNCHANGED << request, response, selectedOrder, currentTime, mockOrders, clock,
                    ticks, calcInput, calcNow, serverScored, pageScored >>

TickMs == 60000

\* Variant: the interval callback scores the mock orders again, taking the
\* new clock reading for `now`, and ranks them again.
rescoredAt(mock, now) ==
    [i \in 1..Len(mock) |->
        [page_calculateOrderPriority([mock[i] EXCEPT !.order_time = now])
            EXCEPT !.order_time = mock[i].order_time]]

Tick_rescoring ==
    /\ mounted
    /\ ticks < MaxTicks
    /\ clock' = clock + TickMs
    /\ currentTime' = clock'
    /\ ticks' = ticks + 1
    /\ orders' = page_rankedObjects(rescoredAt(mockOrders, clock + TickMs))
    /\ sortedOrders' = page_sortedObjects(rescoredAt(mockOrders, clock + TickMs))
    /\ UNCHANGED << request, response, selectedOrder, mockOrders,
                    mounted, calcInput, calcNow, serverScored, pageScored >>

\* The interval callback of the second useEffect: setCurrentTime(new Date()).
Tick ==
    /\ mounted
    /\ ticks < MaxTicks
    /\ clock' = clock + TickMs
    /\ currentTime' = clock'
    /\ ticks' = ticks + 1
    /\ UNCHANGED << request, response, orders, sortedOrders, selectedOrder, mockOrders,
                    mounted, calcInput, calcNow, serverScored, pageScored >>

\* onClick of a row of the ranked list: setSelectedOrder(order).  The
\* selection is a reference to the row's object: its position in sortedOrders.
SelectOrder(k) ==
    /\ mounted
    /\ k \in 1..Len(sortedOrders)
    /\ selectedOrder' = k
    /\ UNCHANGED << request, response, orders, sortedOrders, currentTime, mockOrders,
                    mounted, clock, ticks, calcInput, calcNow, serverScored, pageScored >>

\* onClick of the detail view's backdrop and close buttons: setSelectedOrder(null).
CloseDetail ==
    /\ selectedOrder # 0
    /\ selectedOrder' = 0
    /\ UNCHANGED << request, response, orders, sortedOrders, currentTime, mockOrders,
                    mounted, clock, ticks, calcInput, calcNow, serverScored, pageScored >>

\* getTimeRemaining(deliveryEnd): Math.floor(diff / 60000) against the displayed clock.
getTimeRemainingMinutes(deliveryEnd) == (deliveryEnd - currentTime) \div MsPerMinute

(***************************************************************************)
(* Inputs.                                                                 *)
(***************************************************************************)
SeqsUpTo(S, n) == UNION { [1..k -> S] : k \in 0..n }

\* Orders sent to the endpoint.
OrderPool ==
    { Order("A", "urgent", 0, 25 * MsPerMinute, << Product("hot_food", 65, 1, 3) >>),
      Order("B", "urgent", 0, 25 * MsPerMinute, << Product("hot_food", 65, 1, 3) >>),
      Order("C", "standard", 0, 200 * MsPerMinute,
            << Product("medicine", 120, 1, 17520) >>),
      Order("D", "high", 0, 60 * MsPerMinute, << >>),
      Order("E", "economy", 0, 10 * MsPerMinute, << >>),
      Order("F", "standard", 0, 45 * MsPerMinute,
            << [Product("snack", 0, 2, 24) EXCEPT !.price = NonNumeric] >>),
      [ order_id |-> "G", customer_priority |-> "high", order_time |-> 0,
        delivery_window_end |-> 30 * MsPerMinute ] }

RequestBodies ==
    { Body("unparsable", "undefined", << >>),
      Body("null", "undefined", << >>),
      Body("number", "undefined", << >>),
      Body("object", "undefined", << >>),
      Body("object", "null", << >>),
      Body("object", "string", << >>),
      Body("object", "object", << >>) }
    \cup { Body("object", "array", items) : items \in SeqsUpTo(OrderPool, MaxBatch) }

\* Orders handed to the two calculators directly.
ProductPool ==
    { Product("hot_food", 65, 1, 3),
      Product("hot_food", 400, 1, 2),
      Product("medicine", 120, 1, 17520),
      Product("frozen", 89, 2, 720),
      Product("chilled", 45, 2, 8),
      Product("beverage", 25, 2, 24),
      Product("snack", 49, 1, 168),
      Product("daily_goods", 250, 2, 169),
      Product("toys", 100, 2, 9),
      Product("beverage", 100, 1, 25),
      [Product("snack", 0, 1, 4) EXCEPT !.price = NonNumeric] }

CustomerPriorities == {"urgent", "high", "standard", "economy", "vip"}

\* delivery_window_end - order_time, in ms.
WindowOffsets ==
    { 0 - 5 * MsPerMinute, 15 * MsPerMinute, 15 * MsPerMinute + 1, 25 * MsPerMinute,
      30 * MsPerMinute, 30 * MsPerMinute + 1, 60 * MsPerMinute, 60 * MsPerMinute + 1,
      120 * MsPerMinute, 120 * MsPerMinute + 1, 200 * MsPerMinute }

\* The time from order_time to the scoring call, in ms.
ScoringDelays == {0, 20 * MsPerMinute}

WideOrders ==
    { Order("X", priority, 0, offset, products) :
        priority \in CustomerPriorities, offset \in WindowOffsets,
        products \in SeqsUpTo(ProductPool, MaxProducts) }

(***************************************************************************)
(* The scorer on its own: one order, scored by each calculator.            *)
(***************************************************************************)
ServerScore ==
    /\ serverScored = << >>
    /\ serverScored' = << calculateOrderPriority(calcInput) >>
    /\ UNCHANGED << request, response, orders, sortedOrders, selectedOrder, currentTime,
                    mockOrders, mounted, clock, ticks, calcInput, calcNow, pageScored >>

PageScore ==
    /\ pageScored = << >>
    /\ pageScored' = << page_calculateOrderPriority(calcInput) >>
    /\ UNCHANGED << request, response, orders, sortedOrders, selectedOrder, currentTime,
                    mockOrders, mounted, clock, ticks, calcInput, calcNow, serverScored >>

(***************************************************************************)
(* Specifications.                                                         *)
(***************************************************************************)
InitDashboard ==
    /\ orders = << >>
    /\ sortedOrders = << >>
    /\ selectedOrder = 0
    /\ mounted = FALSE
    /\ clock = 0
    /\ currentTime = 0
    /\ ticks = 0

InitHarnessIdle ==
    /\ calcInput = Order("X", "standard", 0, 0, << >>)
    /\ calcNow = 0
    /\ serverScored = << >>
    /\ pageScored = << >>

NoSkew == [i \in 1..5 |-> 0]

DefaultBody == Body("object", "array", << >>)

\* The two data paths: a request to the endpoint, and the dashboard's load.
\* The request and the mock data never meet, so one of them varies at a time.
Init ==
    /\ \E body \in RequestBodies, skew \in [1..5 -> SkewValues] :
          /\ body = DefaultBody \/ skew = NoSkew
          /\ request = << body >>
          /\ mockOrders = buildMockOrders(0, skew)
    /\ response = << >>
    /\ InitDashboard
    /\ InitHarnessIdle

Next ==
    \/ POST
    \/ LoadEffect

Spec == Init /\ [][Next]_vars

\* The dashboard component over its life.
InitPage ==
    /\ request = << >>
    /\ response = << >>
    /\ InitDashboard
    /\ \E skew \in [1..5 -> SkewValues] : mockOrders = buildMockOrders(0, skew)
    /\ InitHarnessIdle

NextPage ==
    \/ LoadEffect
    \/ Tick
    \/ \E k \in 1..Len(sortedOrders) : SelectOrder(k)
    \/ CloseDetail

SpecPage == InitPage /\ [][NextPage]_vars

\* The two calculators on one order.
InitScorer ==
    /\ request = << >>
    /\ response = << >>
    /\ InitDashboard
    /\ mockOrders = buildMockOrders(0, NoSkew)
    /\ calcInput \in WideOrders
    /\ \E delay \in ScoringDelays : calcNow = calcInput.order_time + delay
    /\ serverScored = << >>
    /\ pageScored = << >>

NextScorer ==
    \/ ServerScore
    \/ PageScore

SpecScorer == InitScorer /\ [][NextScorer]_vars

\* The two calculators on one order, the call made at the order's own
\* order_time: for the properties that compare one scoring with another.
InitCompare ==
    /\ request = << >>
    /\ response = << >>
    /\ InitDashboard
    /\ mockOrders = buildMockOrders(0, NoSkew)
    /\ calcInput \in WideOrders
    /\ calcNow = calcInput.order_time
    /\ serverScored = << >>
    /\ pageScored = << >>

SpecCompare == InitCompare /\ [][NextScorer]_vars

(***************************************************************************)
(* Properties.                                                             *)
(***************************************************************************)
\* The order of JavaScript numbers that are not NaN.
NumLeq(x, y) ==
    \/ x.kind = "-Infinity" /\ y.kind # "NaN"
    \/ y.kind = "Infinity" /\ x.kind # "NaN"
    \/ x.kind = "finite" /\ y.kind = "finite" /\ x.v <= y.v

WithoutRank(r) == [f \in DOMAIN r \ {"suggested_delivery_order"} |-> r[f]]

\* `out` lists exactly the records of `scored`, each as often as it occurs there.
SameRecords(out, scored) ==
    /\ Len(out) = Len(scored)
    /\ \A i \in 1..Len(scored) :
          Cardinality({ k \in 1..Len(out) : WithoutRank(out[k]) = scored[i] })
              = Cardinality({ j \in 1..Len(scored) : scored[j] = scored[i] })

Ranked(out) ==
    /\ \A k \in 1..Len(out) : out[k].suggested_delivery_order = k
    /\ \A k \in 1..(Len(out) - 1) :
          NumLeq(out[k + 1].priority_score, out[k].priority_score)

Answered == response # << >>
Accepted == Answered /\ response[1].status = 200
RequestItems == request[1].orders.items
ResponseOrders == response[1].body.orders

\* C1: for every accepted batch of N orders the ranked list is a permutation
\* of the N scored orders, priority_score is non-increasing along it and the
\* record at position i carries suggested_delivery_order = i; the same holds
\* of the dashboard's sortedOrders.
C1_RankedPermutation ==
    /\ Accepted =>
          /\ SameRecords(ResponseOrders,
                         [i \in 1..Len(RequestItems) |->
                             calculateOrderPriority(RequestItems[i])])
          /\ Ranked(ResponseOrders)
    /\ mounted =>
          /\ SameRecords(sortedOrders, page_calculated(mockOrders))
          /\ Ranked(sortedOrders)

\* A batch of at least two orders whose ranking differs from the input
\* order, and a loaded dashboard.
C1_Witness ==
    /\ Accepted
    /\ Len(ResponseOrders) >= 2
    /\ ResponseOrders[1].order_id # RequestItems[1].order_id
    /\ ResponseOrders[1].priority_score # ResponseOrders[2].priority_score
    /\ mounted
    /\ Len(sortedOrders) = 5

DistinctIds(items) ==
    \A i, j \in 1..Len(items) : items[i].order_id = items[j].order_id => i = j

InputIndex(items, id) == CHOOSE i \in 1..Len(items) : items[i].order_id = id

StableOver(out, items) ==
    \A k, l \in 1..Len(out) :
        (k < l /\ out[k].priority_score = out[l].priority_score)
            => InputIndex(items, out[k].order_id) < InputIndex(items, out[l].order_id)

\* C2: two orders of a batch with equal priority_score keep their input
\* order in the ranking (the earlier one gets the smaller rank), in the
\* endpoint's response and in the dashboard's sortedOrders.
C2_StableRanking ==
    /\ (Accepted /\ DistinctIds(RequestItems)) => StableOver(ResponseOrders, RequestItems)
    /\ mounted => StableOver(sortedOrders, mockOrders)

\* Two different orders with the same finite score, and two with the score
\* -Infinity, each pair ranked in input order.
C2_Witness ==
    /\ Accepted
    /\ DistinctIds(RequestItems)
    /\ \E k \in 1..(Len(ResponseOrders) - 1) :
          /\ ResponseOrders[k].priority_score = ResponseOrders[k + 1].priority_score
          /\ ResponseOrders[k].order_id # ResponseOrders[k + 1].order_id
          /\ ResponseOrders[k + 1].suggested_delivery_order = k + 1

\* C8: a request whose `orders` field is missing or is not a list is answered
\* with status 400, and its response carries no scored order.
C8_MalformedRejected400 ==
    (/\ Answered
     /\ request[1].kind # "unparsable"
     /\ destructureOrders(request[1]).kind # "array"
         \/ request[1].kind = "null")
        => /\ response[1].status = 400
           /\ "orders" \notin DOMAIN response[1].body

\* C10: when a batch holds an order with an empty product list (and no item
\* lacks its products), the response is a success, every order of the batch is
\* ranked and every priority_score is a finite number.
C10_EmptyProductsDefinedScore ==
    (/\ Answered
     /\ request[1].orders.kind = "array"
     /\ \A i \in 1..Len(RequestItems) : "products" \in DOMAIN RequestItems[i]
     /\ \E i \in 1..Len(RequestItems) : RequestItems[i].products = << >>)
        => /\ response[1].status = 200
           /\ Len(ResponseOrders) = Len(RequestItems)
           /\ \A k \in 1..Len(ResponseOrders) : IsFinite(ResponseOrders[k].priority_score)

(***************************************************************************)
(* The scoring rules as the specification words them, for comparison with  *)
(* what the calculators return.  Scores in points, totals in thousandths.  *)
(***************************************************************************)
StatedCategoryScore(category) ==
    CASE category = "hot_food" -> 100
      [] category = "frozen" -> 90
      [] category = "chilled" -> 75
      [] category = "medicine" -> 60
      [] category = "beverage" -> 40
      [] category \in {"snack", "daily_goods"} -> 20
      [] OTHER -> 20

StatedTemp(products) ==
    CHOOSE m \in { StatedCategoryScore(products[i].category) : i \in 1..Len(products) } :
        \A i \in 1..Len(products) : StatedCategoryScore(products[i].category) <= m

StatedMinExpiration(products) ==
    CHOOSE m \in { products[i].expiration_hours : i \in 1..Len(products) } :
        \A i \in 1..Len(products) : m <= products[i].expiration_hours

StatedExpiration(hours) ==
    CASE hours <= 3 -> 100
      [] hours > 3 /\ hours <= 8 -> 90
      [] hours > 8 /\ hours <= 24 -> 70
      [] hours > 24 /\ hours <= 168 -> 50
      [] OTHER -> 30

StatedCustomer(priority) ==
    CASE priority = "urgent" -> 100
      [] priority = "high" -> 75
      [] priority = "standard" -> 50
      [] priority = "economy" -> 25
      [] OTHER -> 50

RECURSIVE StatedTotalValue(_)
StatedTotalValue(products) ==
    IF products = << >> THEN 0
    ELSE Head(products).price.v * Head(products).quantity + StatedTotalValue(Tail(products))

StatedValue(total) ==
    CASE total >= 500 -> 100
      [] total < 500 /\ total >= 200 -> 80
      [] total < 200 /\ total >= 100 -> 60
      [] total < 100 /\ total >= 50 -> 40
      [] OTHER -> 20

\* `ms` is the time remaining in milliseconds.
StatedWindow(ms) ==
    CASE ms <= 15 * 60 * 1000 -> 100
      [] ms > 15 * 60 * 1000 /\ ms <= 30 * 60 * 1000 -> 90
      [] ms > 30 * 60 * 1000 /\ ms <= 60 * 60 * 1000 -> 70
      [] ms > 60 * 60 * 1000 /\ ms <= 120 * 60 * 1000 -> 50
      [] OTHER -> 30

StatedFragility(products) ==
    IF \E i \in 1..Len(products) : products[i].category = "medicine" THEN 100 ELSE 30

\* 0.30 temp + 0.25 expiration + 0.15 customer + 0.10 value + 0.15 window
\* + 0.05 fragility, in thousandths of a point, for a window score w.
StatedTotal(order, w) ==
    300 * StatedTemp(order.products)
    + 250 * StatedExpiration(StatedMinExpiration(order.products))
    + 150 * StatedCustomer(order.customer_priority)
    + 100 * StatedValue(StatedTotalValue(order.products))
    + 150 * w
    + 50 * StatedFragility(order.products)

\* The nearest multiple of 0.01 (10 thousandths), a half rounding up.
StatedRounded(t) ==
    CHOOSE r \in { 10 * q : q \in ((t \div 10) - 1)..((t \div 10) + 1) } :
        /\ 2 * (r - t) <= 10
        /\ 2 * (t - r) < 10

StatedClass(score) ==
    CASE score.kind = "finite" /\ score.v >= 75000 -> "critical"
      [] score.kind = "finite" /\ score.v >= 60000 /\ score.v < 75000 -> "high"
      [] score.kind = "finite" /\ score.v >= 40000 /\ score.v < 60000 -> "medium"
      [] OTHER -> "low"

NumericPrices(products) ==
    \A i \in 1..Len(products) : products[i].price.kind = "finite"

Scenario1 ==
    Order("X", "urgent", 0, 25 * 60 * 1000, << Product("hot_food", 65, 1, 3) >>)

Scenario2 ==
    Order("X", "standard", 0, 200 * 60 * 1000, << Product("medicine", 120, 1, 17520) >>)

ServerDone == serverScored # << >>
PageDone == pageScored # << >>

\* C3: for an order with at least one product (and numeric prices) the
\* server calculator's priority_score is the stated weighted sum of the six
\* stated components, rounded to two decimals; Scenario 1 scores 89.0 and is
\* critical, Scenario 2 scores 48.5 and is medium.
C3_WeightedScore ==
    ServerDone =>
        /\ (Len(calcInput.products) >= 1 /\ NumericPrices(calcInput.products)) =>
              serverScored[1].priority_score =
                  Fin(StatedRounded(StatedTotal(calcInput,
                      StatedWindow(calcInput.delivery_window_end - calcInput.order_time))))
        /\ calcInput = Scenario1 =>
              /\ serverScored[1].priority_score = Fin(89000)
              /\ serverScored[1].priority_class = "critical"
        /\ calcInput = Scenario2 =>
              /\ serverScored[1].priority_score = Fin(48500)
              /\ serverScored[1].priority_class = "medium"

\* Scenario 1 has been scored.
C3_Witness ==
    /\ ServerDone
    /\ calcInput = Scenario1
    /\ serverScored[1].priority_score = Fin(89000)

\* C4: in every scored record priority_class is the class of the reported
\* two-decimal priority_score: critical from 75.00, high from 60.00 to below
\* 75.00, medium from 40.00 to below 60.00, low below 40.00.
C4_ClassOfReportedScore ==
    /\ ServerDone => serverScored[1].priority_class = StatedClass(serverScored[1].priority_score)
    /\ PageDone => pageScored[1].priority_class = StatedClass(pageScored[1].priority_score)

\* A record whose score is exactly 75.00 and one whose score is exactly 60.00
\* exist; the state shown has one of them, classed by the closed bound.
C4_Witness ==
    /\ ServerDone
    /\ PageDone
    /\ serverScored[1].priority_score = Fin(75000)
    /\ serverScored[1].priority_class = "critical"

InRange(x, max) == x.kind = "finite" /\ x.v >= 0 /\ x.v <= max

\* The six weighted parts of the server's breakdown lie in their ranges.
ComponentsInRange(b) ==
    /\ InRange(b.temperature, 100 * 300)
    /\ InRange(b.expiration, 100 * 250)
    /\ InRange(b.customer_priority, 100 * 150)
    /\ InRange(b.value, 100 * 100)
    /\ InRange(b.delivery_window, 100 * 150)
    /\ InRange(b.fragility, 100 * 50)

\* C5: when the six component scores are within their ranges (0..100 each),
\* the returned priority_score lies in [0, 100]; an order with at least one
\* product has all six in range.
C5_ScoreWithinBounds ==
    /\ (ServerDone /\ ComponentsInRange(serverScored[1].breakdown)) =>
          InRange(serverScored[1].priority_score, 100000)
    /\ (ServerDone /\ Len(calcInput.products) >= 1) =>
          ComponentsInRange(serverScored[1].breakdown)
    /\ (PageDone /\ Len(calcInput.products) >= 1) =>
          InRange(pageScored[1].priority_score, 100000)

\* An order with all components in range and a score above 90.
C5_Witness ==
    /\ ServerDone
    /\ PageDone
    /\ ComponentsInRange(serverScored[1].breakdown)
    /\ serverScored[1].priority_score.v >= 90000

\* C6: the delivery-window component is the step function of
\* delivery_window_end minus the instant of the scoring call.
C6_WindowFromScoringInstant ==
    ServerDone =>
        serverScored[1].breakdown.delivery_window =
            Fin(150 * StatedWindow(calcInput.delivery_window_end - calcNow))

Overdue == calcInput.delivery_window_end - calcInput.order_time < 0

AtFifteenMinutes ==
    [calcInput EXCEPT !.delivery_window_end = calcInput.order_time + 15 * 60 * 1000]

AllUnrecognized(products) ==
    \A i \in 1..Len(products) : products[i].category \notin DOMAIN tempRequirements

\* C9: for an order with an empty product list, or whose products all carry
\* an unrecognized category, the temperature component of the weighted total
\* is the fallback 20 and highest_temp_requirement is the snack label.
C9_MalformedOrderFallback ==
    (ServerDone /\ AllUnrecognized(calcInput.products)) =>
        /\ serverScored[1].breakdown.temperature = Fin(300 * 20)
        /\ serverScored[1].highest_temp_requirement = "ambient"

NonNumericPriced(order) ==
    /\ "products" \in DOMAIN order
    /\ \E i \in 1..Len(order.products) : order.products[i].price.kind = "string"

\* C11: a batch that holds an order with a product whose price is not a
\* number is answered with status 500; it is never ranked in a success
\* response.
C11_NonNumericPriceIs500 ==
    (/\ Answered
     /\ request[1].orders.kind = "array"
     /\ \E i \in 1..Len(RequestItems) : NonNumericPriced(RequestItems[i]))
        => response[1].status = 500

PriorityClasses == {"critical", "high", "medium", "low"}

\* The sum of finite scores, in thousandths of a point.
RECURSIVE StatedSum(_)
StatedSum(out) ==
    IF out = << >> THEN 0
    ELSE Head(out).priority_score.v + StatedSum(Tail(out))

\* C13: for every accepted batch with at least one order, total_orders is the
\* number of input orders, the four class counts add up to total_orders, each
\* count is the number of returned records of its class, and avg_score is the
\* sum of the returned priority_score values divided by total_orders (a sum
\* that holds a score of -Infinity is -Infinity, and so is its quotient).
C13_SummaryConsistent ==
    (Accepted /\ Len(RequestItems) >= 1) =>
        LET b == response[1].body
        IN  /\ b.total_orders = Len(RequestItems)
            /\ b.summary.critical + b.summary.high + b.summary.medium + b.summary.low
                   = b.total_orders
            /\ \A c \in PriorityClasses :
                  b.summary[c] =
                      Cardinality({ k \in 1..Len(b.orders) : b.orders[k].priority_class = c })
            /\ IF \A k \in 1..Len(b.orders) : IsFinite(b.orders[k].priority_score)
               THEN /\ b.summary.avg_score.kind = "finite"
                    /\ b.summary.avg_score.v * b.total_orders
                           = StatedSum(b.orders) * b.summary.avg_score.d
               ELSE b.summary.avg_score.kind = "-Infinity"

\* A batch of three orders of two classes whose average is not a whole
\* number of thousandths.
C13_Witness ==
    /\ Accepted
    /\ response[1].body.total_orders = 3
    /\ response[1].body.summary.critical = 2
    /\ response[1].body.summary.medium = 1
    /\ response[1].body.summary.avg_score.kind = "finite"
    /\ response[1].body.summary.avg_score.d = 3

\* C16: after the dashboard's load has sorted and ranked the batch, every
\* record of `orders` has exactly the fields and values it had when the
\* scorer returned it.
C16_ScoredRecordsNeverModified ==
    mounted => orders = page_calculated(mockOrders)

\* C20: a request whose `orders` field is an empty list is accepted: the
\* response is a success with total_orders = 0, an empty ranked list, all
\* four class counts 0, and avg_score the result of 0 / 0 (NaN).
C20_EmptyBatchAccepted ==
    (/\ Answered
     /\ request[1].kind = "object"
     /\ request[1].orders.kind = "array"
     /\ RequestItems = << >>)
        => /\ response[1].status = 200
           /\ response[1].body.success = TRUE
           /\ response[1].body.total_orders = 0
           /\ response[1].body.orders = << >>
           /\ \A c \in PriorityClasses : response[1].body.summary[c] = 0
           /\ response[1].body.summary.avg_score.kind = "NaN"

\* The empty batch has been answered.
C20_Witness ==
    /\ Answered
    /\ request[1] = DefaultBody
    /\ response[1].status = 200
    /\ response[1].body.summary.avg_score.kind = "NaN"


\* What a list of the dashboard shows of the scoring: for each position the
\* order, its score, its class and its rank.
Shown(list) ==
    [k \in 1..Len(list) |->
        [ order_id                 |-> list[k].order_id,
          priority_score           |-> list[k].priority_score,
          priority_class           |-> list[k].priority_class,
          suggested_delivery_order |-> list[k].suggested_delivery_order ]]

\* C12: once the dashboard has loaded, no step scores or ranks again: every
\* step, and every clock tick in particular, leaves each order's
\* priority_score, priority_class and suggested_delivery_order and the order
\* of both lists as they were; a tick changes the displayed time and neither
\* the selection nor the data.
C12_TicksKeepRanking ==
    [][ /\ mounted =>
              /\ Shown(orders') = Shown(orders)
              /\ Shown(sortedOrders') = Shown(sortedOrders)
        /\ ticks' # ticks =>
              /\ currentTime' = currentTime + TickMs
              /\ selectedOrder' = selectedOrder
              /\ mockOrders' = mockOrders ]_vars

\* Two ticks after the load: the time shown for the top order has gone down
\* by two minutes and the list is still the one ranked at the load.
C12_Witness ==
    /\ mounted
    /\ ticks = 2
    /\ currentTime = 2 * TickMs
    /\ Len(sortedOrders) = 5
    /\ sortedOrders[1].suggested_delivery_order = 1
    /\ getTimeRemainingMinutes(sortedOrders[1].delivery_window_end) = 23
    /\ sortedOrders = page_sortedObjects(page_calculated(mockOrders))


\* The label of a category as the specification's table gives it; a category
\* the table does not list takes the label of the snack entry.
StatedLabel(category) ==
    CASE category = "hot_food" -> "hot 60-70C"
      [] category = "frozen" -> "frozen -18C"
      [] category = "chilled" -> "chilled 0-4C"
      [] category = "medicine" -> "ambient (medicine)"
      [] category = "beverage" -> "cool 15-20C"
      [] OTHER -> "ambient"

\* The first product, in input order, whose category score is the maximum.
FirstAttaining(products) ==
    CHOOSE i \in 1..Len(products) :
        /\ StatedCategoryScore(products[i].category) = StatedTemp(products)
        /\ \A j \in 1..(i - 1) :
              StatedCategoryScore(products[j].category) # StatedTemp(products)

\* C15: for an order with at least one product the temperature component is
\* the maximum category score over its products (an unknown category counts
\* 20), and highest_temp_requirement is the label of the first product in
\* input order whose category score is that maximum; in both calculators.
C15_MaxTemperatureAndLabel ==
    /\ (ServerDone /\ Len(calcInput.products) >= 1) =>
          /\ serverScored[1].breakdown.temperature =
                 Fin(300 * StatedTemp(calcInput.products))
          /\ serverScored[1].highest_temp_requirement =
                 StatedLabel(calcInput.products[FirstAttaining(calcInput.products)].category)
    /\ (PageDone /\ Len(calcInput.products) >= 1) =>
          pageScored[1].highest_temp_requirement =
              StatedLabel(calcInput.products[FirstAttaining(calcInput.products)].category)

\* An order of two products where the second one sets the temperature.
C15_Witness ==
    /\ ServerDone
    /\ PageDone
    /\ Len(calcInput.products) = 2
    /\ calcInput.products[1].category = "beverage"
    /\ calcInput.products[2].category = "frozen"
    /\ serverScored[1].breakdown.temperature = Fin(300 * 90)
    /\ serverScored[1].highest_temp_requirement = "frozen -18C"


\* The fields both calculators compute, and those only the server returns.
SharedFields ==
    { "order_id", "priority_score", "priority_class", "highest_temp_requirement",
      "total_value", "earliest_expiration" }

ServerOnlyFields == { "breakdown", "minutes_until_deadline" }

FieldsAgree(server, page) == \A f \in SharedFields : server[f] = page[f]

\* Orders that share a batch with the scored order.
Companion1 == Order("S1", "urgent", 0, 25 * 60 * 1000, << Product("hot_food", 65, 1, 3) >>)
Companion2 ==
    Order("S2", "standard", 0, 200 * 60 * 1000, << Product("medicine", 120, 1, 17520) >>)
Companion0 == Order("S0", "high", 0, 60 * 60 * 1000, << >>)

BatchesWith(order) ==
    { << order, Companion1 >>, << Companion0, order >>,
      << Companion2, order, Companion1 >> }

\* The endpoint's ranking and the dashboard's ranking of one batch.
ServerRanking(batch) ==
    rankResults([i \in 1..Len(batch) |-> calculateOrderPriority(batch[i])])

PageRanking(batch) == page_sortedObjects(page_calculated(batch))

RankingsAgree(server, page) ==
    /\ Len(server) = Len(page)
    /\ \A k \in 1..Len(server) :
          /\ FieldsAgree(server[k], page[k])
          /\ server[k].suggested_delivery_order = page[k].suggested_delivery_order

SameRanking(batch) == RankingsAgree(ServerRanking(batch), PageRanking(batch))

\* The server's breakdown adds up to the total it reports.
BreakdownAddsUp(r) ==
    IF IsFinite(r.breakdown.temperature)
    THEN r.priority_score =
             Fin(StatedRounded(r.breakdown.temperature.v + r.breakdown.expiration.v
                               + r.breakdown.customer_priority.v + r.breakdown.value.v
                               + r.breakdown.delivery_window.v + r.breakdown.fragility.v))
    ELSE r.priority_score = r.breakdown.temperature

Without(r, fields) == [f \in DOMAIN r \ fields |-> r[f]]

\* C17 as stated: both calculators return the same five computed fields and
\* rank every batch alike, the breakdown adds up to the total, and the
\* server's record is the browser's record plus the fields breakdown and
\* minutes_until_deadline.
C17_DiffersOnlyByTwoFields ==
    (ServerDone /\ PageDone) =>
        /\ FieldsAgree(serverScored[1], pageScored[1])
        /\ \A batch \in BatchesWith(calcInput) : SameRanking(batch)
        /\ BreakdownAddsUp(serverScored[1])
        /\ Without(serverScored[1], ServerOnlyFields) = pageScored[1]

\* C17, amended: both calculators return the same order_id, priority_score,
\* priority_class, highest_temp_requirement, total_value and
\* earliest_expiration and rank every batch alike, and the breakdown adds up
\* to the total; the fields only the server returns are breakdown and
\* minutes_until_deadline, and the fields only the browser returns are the
\* input order's own fields other than order_id, copied unchanged.
C17_CalculatorsAgree ==
    (ServerDone /\ PageDone) =>
        /\ FieldsAgree(serverScored[1], pageScored[1])
        /\ \A batch \in BatchesWith(calcInput) : SameRanking(batch)
        /\ BreakdownAddsUp(serverScored[1])
        /\ DOMAIN serverScored[1] \ DOMAIN pageScored[1] = ServerOnlyFields
        /\ DOMAIN pageScored[1] \ DOMAIN serverScored[1] = DOMAIN calcInput \ {"order_id"}
        /\ \A f \in DOMAIN calcInput : pageScored[1][f] = calcInput[f]

\* An order of two products scored by both calculators, at an expiration
\* bound and with a finite score.
C17_Witness ==
    /\ ServerDone
    /\ PageDone
    /\ Len(calcInput.products) = 2
    /\ serverScored[1].earliest_expiration = Fin(3)
    /\ IsFinite(pageScored[1].priority_score)
    /\ pageScored[1].priority_score = serverScored[1].priority_score
    /\ "products" \in DOMAIN pageScored[1]
    /\ "products" \notin DOMAIN serverScored[1]


\* Products that may be added to an order: a numeric price >= 0, a quantity
\* >= 1, expiration_hours >= 0, any category.
AddedProducts ==
    { Product("hot_food", 400, 1, 2),
      Product("medicine", 120, 1, 17520),
      Product("daily_goods", 250, 2, 169),
      Product("toys", 100, 2, 9),
      Product("snack", 0, 1, 0) }

ClassRank(class) ==
    CASE class = "low" -> 1
      [] class = "medium" -> 2
      [] class = "high" -> 3
      [] class = "critical" -> 4

NotLower(before, after) ==
    /\ NumLeq(before.priority_score, after.priority_score)
    /\ ClassRank(before.priority_class) <= ClassRank(after.priority_class)

WithProduct(order, p) == [order EXCEPT !.products = Append(@, p)]

\* C18: adding a product (price >= 0, quantity >= 1, expiration_hours >= 0,
\* any category) to an order that already has at least one product never
\* lowers its priority_score and never moves its priority_class to a less
\* urgent tier.
C18_AddingProductNeverLowers ==
    /\ (ServerDone /\ Len(calcInput.products) >= 1) =>
          \A p \in AddedProducts :
              NotLower(serverScored[1], calculateOrderPriority(WithProduct(calcInput, p)))
    /\ (PageDone /\ Len(calcInput.products) >= 1) =>
          \A p \in AddedProducts :
              NotLower(pageScored[1], page_calculateOrderPriority(WithProduct(calcInput, p)))

\* A scored order of one snack, which adding the medicine product lifts from
\* low to a higher class.
C18_Witness ==
    /\ ServerDone
    /\ PageDone
    /\ Len(calcInput.products) = 1
    /\ calcInput.products[1].category = "snack"
    /\ serverScored[1].priority_class = "low"
    /\ calculateOrderPriority(
           WithProduct(calcInput, Product("medicine", 120, 1, 17520))).priority_class # "low"

ContainsCategory(products, category) ==
    \E i \in 1..Len(products) : products[i].category = category

\* C19: for an order with at least one product and numeric prices, the
\* unrounded weighted total (the sum of the breakdown) is a multiple of 0.25
\* between 25.25 and 100; the reported priority_score equals it, so the class
\* is the class of the reported score; a total of 100 occurs only when the
\* order holds both a hot_food and a medicine product.
C19_QuarterPointTotals ==
    (ServerDone /\ Len(calcInput.products) >= 1 /\ NumericPrices(calcInput.products)) =>
        /\ IsFinite(totalScoreOf(serverScored[1].breakdown))
        /\ totalScoreOf(serverScored[1].breakdown).v % 250 = 0
        /\ totalScoreOf(serverScored[1].breakdown).v >= 25250
        /\ totalScoreOf(serverScored[1].breakdown).v <= 100000
        /\ serverScored[1].priority_score = totalScoreOf(serverScored[1].breakdown)
        /\ serverScored[1].priority_class
               = StatedClass(totalScoreOf(serverScored[1].breakdown))
        /\ serverScored[1].priority_score = Fin(100000) =>
              /\ ContainsCategory(calcInput.products, "hot_food")
              /\ ContainsCategory(calcInput.products, "medicine")

\* An order of a hot_food and a medicine product that scores exactly 100.
C19_Witness ==
    /\ ServerDone
    /\ NumericPrices(calcInput.products)
    /\ serverScored[1].priority_score = Fin(100000)
    /\ serverScored[1].priority_class = "critical"
    /\ ContainsCategory(calcInput.products, "hot_food")
    /\ ContainsCategory(calcInput.products, "medicine")


=============================================================================
